---- MODULE Spec2Model ----
(***************************************************************************)
(* rpixi: the concurrent point-accumulation renderer.                      *)
(*                                                                         *)
(*   src/src/main.rs     the live-window variant (density canvas, display) *)
(*   src/src/cmdline.rs  the batch variant (blended canvas, out.png)       *)
(*                                                                         *)
(* Reals (f64) are fixed-point integers: a complex value is <<re, im>> in  *)
(* units of 1/Scale, a projected position is in units of 1/(2*Scale), so   *)
(* that the half-pixel bias of draw_point is exact.                        *)
(***************************************************************************)
EXTENDS Integers, Sequences, FiniteSets, TLC

\* ------------------------------------------------------------------ bounds
Scale == 2          \* fixed-point denominator of complex values
MaxThreads == 2     \* pool threads that run the per-seed closure
MaxScroll == 1      \* scroll notches away from cfg.factor, either way
HueRes == 5         \* samples of the hue per degree
MaxGrid == 8        \* largest bounds and delta the grid generator is given
MaxWrites == 2      \* draw_point calls applied in a row to one canvas
ZMax == 3           \* largest |re|, |im| given to draw_point directly

\* ------------------------------------------------------- program constants
U16Max == 65535     \* u16::max_value()
U8Max == 255        \* u8::max_value()
RenderPeriod == 30  \* state.render_count == 30

VARIABLES
    cfg,            \* Config
    build,          \* how the binary was built: the cast and overflow semantics
    threads,        \* the pool threads that process seeds
    mpc,            \* position of main / make_frame
    canvas,         \* Pic<u16>: pixel -> channels
    all_coords,     \* Vec of coordinate pairs
    state,          \* State {counter, max, just_finished, render_count}
    bar,            \* ProgressBar position (batch)
    locked,         \* the Mutex is held
    poisoned,       \* the Mutex is poisoned
    todo,           \* indices of all_coords not yet handed to a thread
    wpc,            \* per thread: position in the per-seed closure
    wseed,          \* per thread: index of the seed in hand
    points,         \* per thread: the local vec of computed points
    dpc,            \* position of display
    buffer,         \* display-side / export 8-bit image
    factor,         \* display-side brightness factor, in units of 1/FactorUnit
    force_rerender, \* display-side flag
    out_png,        \* content of the file out.png, <<>> while absent
    stale,          \* a canvas pixel changed since out.png was last written
    redrawn,        \* the buffer was re-converted since out.png was last written
    z_in,           \* last point given to draw_point
    hits,           \* pixel -> in-bounds draw_point calls made on it here
    prior,          \* in-bounds draw_point calls made on each pixel before
    hsv,            \* arguments of the last get_rgba call, <<>> before it
    rgba,           \* result of the last get_rgba call, <<>> before it
    waited          \* render ticks in a row that left the finished canvas unconverted

vars == <<cfg, build, threads, mpc, canvas, all_coords, state, bar, locked, poisoned,
          todo, wpc, wseed, points, dpc, buffer, factor, force_rerender,
          out_png, stale, redrawn, z_in, hits, prior, hsv, rgba, waited>>

\* ------------------------------------------------------- real arithmetic
D == 2 * Scale

RECURSIVE Pow2(_)
Pow2(n) == IF n = 0 THEN 1 ELSE 2 * Pow2(n - 1)

FactorUnit == Pow2(MaxScroll)

Abs(a) == IF a < 0 THEN -a ELSE a

\* Complex multiplication, rounded to the grid of 1/Scale.
CMul(a, b) == << (a[1] * b[1] - a[2] * b[2]) \div Scale,
                 (a[1] * b[2] + a[2] * b[1]) \div Scale >>

RECURSIVE Powf(_, _)
Powf(z, n) == IF n = 0 THEN <<Scale, 0>> ELSE CMul(z, Powf(z, n - 1))

\* mandelbrot: z.powf(cfg.power) + c
mandelbrot(z, x, y, c) ==
    LET p == Powf(z, c.power) IN << p[1] + x, p[2] + y >>

\* ------------------------------------------------------------ the grid
\* Variant of TakeWhile: the walk stops after bounds, not before it.
RECURSIVE TakeWhileInclusive(_, _, _)
TakeWhileInclusive(bounds, delta, x) ==
    LET v == -bounds + x * delta IN
    IF v <= bounds THEN <<v>> \o TakeWhileInclusive(bounds, delta, x + 1) ELSE <<>>

RECURSIVE TakeWhile(_, _, _)
TakeWhile(bounds, delta, x) ==
    LET v == -bounds + x * delta IN
    IF v < bounds THEN <<v>> \o TakeWhile(bounds, delta, x + 1) ELSE <<>>

Coords(c) == TakeWhile(c.bounds, c.delta, 0)

cartesian_product(a, b) ==
    [k \in 1..(Len(a) * Len(b)) |->
        << a[((k - 1) \div Len(b)) + 1], b[((k - 1) % Len(b)) + 1] >>]

AllCoords(c) == cartesian_product(Coords(c), Coords(c))

\* ------------------------------------------------------------ the canvas
Pixels(c) == (0..(c.width - 1)) \X (0..(c.height - 1))

\* Variant of PosX: the half-pixel bias added, as it is for pos_y.
PosXBiasUp(z, c) == c.width * Scale + 2 * z[1] * c.zoom + Scale

PosX(z, c) == c.width * Scale + 2 * z[1] * c.zoom - Scale
\* Variant of PosY: the half-pixel bias subtracted, as it is for pos_x.
PosYBiasDown(z, c) == c.height * Scale - 2 * z[2] * c.zoom - Scale

PosY(z, c) == c.height * Scale - 2 * z[2] * c.zoom + Scale

\* The builds: a float-to-integer cast of a value out of the integer's range
\* saturates, or is undefined and wraps; integer overflow panics or wraps.
Builds == [saturating_cast : BOOLEAN, overflow_checks : BOOLEAN]

\* `as u32` of a position v (units of 1/D). A value in (-1, 0) truncates to 0.
\* A value <= -1 is out of range of u32: the cast saturates to 0 or, where it
\* is undefined, wraps to a value no smaller than any u32 `limit`; `limit`
\* stands for that value.
AsU32(v, limit, b) ==
    IF v >= 0 THEN v \div D
    ELSE IF v > -D THEN 0
    ELSE IF b.saturating_cast THEN 0 ELSE limit

\* Variant of saturating_add: the counter wraps at 2^16.
wrapping_add(v) == (v + 1) % (U16Max + 1)

saturating_add(v) == IF v < U16Max THEN v + 1 ELSE v

\* pixel[0] = pixel[0].saturating_add(1)
Accumulate(p) == << saturating_add(p[1]), p[2] >>

\* image.get_pixel_mut(x, y) panics unless (x, y) is a pixel of the image.
InImage(image, x, y) == <<x, y>> \in DOMAIN image

\* What a draw_point call leaves: the image, and whether it panicked on an
\* index outside the image.
Drawn(image) == [image |-> image, panic |-> FALSE]
IndexPanic(image) == [image |-> image, panic |-> TRUE]

\* Variant of draw_point: the check against width and height left out.
draw_point_unchecked(image, z, c, b) ==
    IF PosX(z, c) + D < 0 \/ PosY(z, c) < 0 THEN Drawn(image)
    ELSE LET pos_x == AsU32(PosX(z, c), c.width, b)
             pos_y == AsU32(PosY(z, c), c.height, b)
         IN  IF ~InImage(image, pos_x, pos_y) THEN IndexPanic(image)
             ELSE Drawn([image EXCEPT ![<<pos_x, pos_y>>] = Accumulate(@)])

draw_point(image, z, c, b) ==
    IF PosX(z, c) + D < 0 \/ PosY(z, c) < 0 THEN Drawn(image)
    ELSE LET pos_x == AsU32(PosX(z, c), c.width, b)
             pos_y == AsU32(PosY(z, c), c.height, b)
         IN  IF pos_x >= c.width \/ pos_y >= c.height THEN Drawn(image)
             ELSE IF ~InImage(image, pos_x, pos_y) THEN IndexPanic(image)
             ELSE Drawn([image EXCEPT ![<<pos_x, pos_y>>] = Accumulate(@)])

\* --------------------------------------------------------- one trajectory
RECURSIVE Record(_, _, _, _, _)
Record(z, x, y, c, n) ==
    IF n = 0 THEN <<>>
    ELSE LET z2 == mandelbrot(z, x, y, c) IN <<z2>> \o Record(z2, x, y, c, n - 1)

\* Variant of Trajectory: recording stops at the first point with |z| > 2.
RECURSIVE RecordEscaping(_, _, _, _, _)
RecordEscaping(z, x, y, c, n) ==
    IF n = 0 THEN <<>>
    ELSE LET z2 == mandelbrot(z, x, y, c)
         IN  IF z2[1] * z2[1] + z2[2] * z2[2] > 4 * Scale * Scale THEN <<>>
             ELSE <<z2>> \o RecordEscaping(z2, x, y, c, n - 1)

TrajectoryEscaping(z0, x, y, c) ==
    RecordEscaping(mandelbrot(z0, x, y, c), x, y, c, c.loop_limit)

\* The closure up to the lock: the warm-up step from z0, then loop_limit points.
Trajectory(z0, x, y, c) ==
    Record(mandelbrot(z0, x, y, c), x, y, c, c.loop_limit)

\* -------------------------------------------------- display tone mapping
ExpUnit == Pow2(15)

\* The series of exp(-n/d) for n < 2d, from term k on; t is the size of term k.
RECURSIVE ExpSeries(_, _, _, _, _)
ExpSeries(n, d, k, t, sign) ==
    IF t = 0 THEN 0
    ELSE sign * t + ExpSeries(n, d, k + 1, (t * n) \div (d * (k + 1)), -sign)

\* exp(-n/d) in units of 1/ExpUnit; below 2^-53 the f64 result of 1 - exp is 1.
RECURSIVE ExpNeg(_, _)
ExpNeg(n, d) ==
    IF n >= 37 * d THEN 0
    ELSE IF n >= 2 * d THEN LET h == ExpNeg(n, 2 * d) IN (h * h) \div ExpUnit
    ELSE ExpSeries(n, d, 0, ExpUnit, 1)

\* u16_to_u8 of main.rs: c = ((1 - exp(-p/factor)) * 255) as u8, f in 1/FactorUnit
ToneMap(p, f) == ((ExpUnit - ExpNeg(p * FactorUnit, f)) * U8Max) \div ExpUnit

u16_to_u8(from, f) ==
    [p \in DOMAIN from |->
        LET c == ToneMap(from[p][1], f) IN <<c, c, c, U8Max>>]

\* The progress text drawn over the buffer: "{:.2}%", in hundredths of a percent.
ProgressText(s) ==
    IF s.max = 0 THEN <<>>
    ELSE << (2 * 10000 * s.counter + s.max) \div (2 * s.max) >>

\* ------------------------------------------------------------ live: main
LiveConfigs ==
    { [width |-> 3, height |-> 3, bounds |-> Scale, power |-> 2, factor |-> 2,
       zoom |-> 1, delta |-> Scale, loop_limit |-> 2,
       off_real |-> 0, off_imaginary |-> 0] }

ThreadSets == { 1..n : n \in 1..MaxThreads }

NoImage == [pixels |-> <<>>, text |-> <<>>]

\* ImageBuffer::from_pixel(cfg.width, cfg.height, LumaA([0, u16::max_value()]))
NewCanvas(c) == [p \in Pixels(c) |-> <<0, U16Max>>]

NewState(coords) == [counter |-> 0, max |-> Len(coords),
                     just_finished |-> FALSE, render_count |-> 0]

\* The threads, the mutex and the display before the closures run.
Parked(ts) ==
    /\ threads = ts
    /\ bar = 0
    /\ locked = FALSE
    /\ poisoned = FALSE
    /\ wpc = [t \in ts |-> "idle"]
    /\ wseed = [t \in ts |-> 0]
    /\ points = [t \in ts |-> <<>>]
    /\ dpc = "start"
    /\ buffer = NoImage
    /\ factor = 0
    /\ force_rerender = FALSE
    /\ out_png = <<>>
    /\ stale = FALSE
    /\ redrawn = FALSE
    /\ z_in = <<>>
    /\ waited = 0

\* What is not built before the closures run.
Unstarted(ts) ==
    /\ Parked(ts)
    /\ hits = <<>>
    /\ prior = 0
    /\ hsv = <<>>
    /\ rgba = <<>>

\* The state main has built when rayon::join starts the two closures.
MainInit(c, b, ts) ==
    /\ cfg = c
    /\ build = b
    /\ mpc = "join"
    /\ canvas = NewCanvas(c)
    /\ all_coords = AllCoords(c)
    /\ state = NewState(AllCoords(c))
    /\ todo = 1..Len(AllCoords(c))
    /\ Unstarted(ts)

Init == \E c \in LiveConfigs, b \in Builds, ts \in ThreadSets : MainInit(c, b, ts)

\* ------------------------------------------------ live: iterate_coordinate
\* Variant of LockAvailable: lock returns at once, whoever holds the mutex.
LockIgnored == TRUE

\* Mutex::lock returns once no other party holds the mutex.
LockAvailable == ~locked

\* Variant of IterateCompute: the seed taken stays in the work list.
IterateComputeKeeping(t) ==
    /\ wpc[t] = "idle"
    /\ \E k \in todo :
        /\ wseed' = [wseed EXCEPT ![t] = k]
        /\ points' = [points EXCEPT
                        ![t] = Trajectory(<<cfg.off_real, cfg.off_imaginary>>,
                                         all_coords[k][2], all_coords[k][1], cfg)]
    /\ wpc' = [wpc EXCEPT ![t] = "lock"]
    /\ UNCHANGED <<waited, hsv, rgba, hits, prior, cfg, build, threads, mpc,
                   canvas, all_coords, state, bar, locked, poisoned, todo, dpc,
                   buffer, factor, force_rerender, out_png, stale, redrawn,
                   z_in>>

\* A pool thread takes a seed and computes its points into the local vec.
IterateCompute(t) ==
    /\ wpc[t] = "idle"
    /\ \E k \in todo :
        /\ todo' = todo \ {k}
        /\ wseed' = [wseed EXCEPT ![t] = k]
        /\ points' = [points EXCEPT
                        ![t] = Trajectory(<<cfg.off_real, cfg.off_imaginary>>,
                                         all_coords[k][2], all_coords[k][1], cfg)]
    /\ wpc' = [wpc EXCEPT ![t] = "lock"]
    /\ UNCHANGED <<waited, hsv, rgba, hits, prior, cfg, build, threads, mpc,
                   canvas, all_coords, state, bar, locked, poisoned, dpc,
                   buffer, factor, force_rerender, out_png, stale, z_in,
                   redrawn>>

\* Variant of IterateLock: a poisoned mutex is taken all the same.
IterateLockRecovering(t) ==
    /\ wpc[t] = "lock"
    /\ LockAvailable
    /\ wpc' = [wpc EXCEPT ![t] = "draw"]
    /\ locked' = TRUE
    /\ UNCHANGED <<waited, hsv, rgba, hits, prior, cfg, build, threads, mpc,
                   canvas, all_coords, state, bar, poisoned, todo, wseed,
                   points, dpc, buffer, factor, force_rerender, out_png, stale,
                   z_in, redrawn>>

\* p_data.lock().expect("Lock failed")
IterateLock(t) ==
    /\ wpc[t] = "lock"
    /\ LockAvailable
    /\ IF poisoned
       THEN wpc' = [wpc EXCEPT ![t] = "panicked"] /\ UNCHANGED locked
       ELSE wpc' = [wpc EXCEPT ![t] = "draw"] /\ locked' = TRUE
    /\ UNCHANGED <<waited, hsv, rgba, hits, prior, cfg, build, threads, mpc,
                   canvas, all_coords, state, bar, poisoned, todo, wseed,
                   points, dpc, buffer, factor, force_rerender, out_png, stale,
                   z_in, redrawn>>

\* Variant of IterateDraw: the lock is taken inside the loop, once per point.
IterateDrawRelocking(t) ==
    /\ wpc[t] = "draw"
    /\ points[t] # <<>>
    /\ canvas' = draw_point(canvas, Head(points[t]), cfg, build).image
    /\ points' = [points EXCEPT ![t] = Tail(@)]
    /\ stale' = (stale \/ canvas' # canvas)
    /\ IF Len(points[t]) > 1
       THEN wpc' = [wpc EXCEPT ![t] = "lock"] /\ locked' = FALSE
       ELSE UNCHANGED <<wpc, locked>>
    /\ UNCHANGED <<waited, hsv, rgba, hits, prior, cfg, build, threads, mpc,
                   all_coords, state, bar, poisoned, todo, wseed, dpc, buffer,
                   factor, force_rerender, out_png, redrawn, z_in>>

\* Variant of IterateDraw: a point is dropped while another thread waits for
\* the mutex.
IterateDrawYielding(t) ==
    /\ wpc[t] = "draw"
    /\ points[t] # <<>>
    /\ canvas' = IF \E u \in threads \ {t} : wpc[u] = "lock"
                 THEN canvas
                 ELSE draw_point(canvas, Head(points[t]), cfg, build).image
    /\ points' = [points EXCEPT ![t] = Tail(@)]
    /\ stale' = (stale \/ canvas' # canvas)
    /\ UNCHANGED <<waited, hsv, rgba, hits, prior, cfg, build, threads, mpc,
                   all_coords, state, bar, locked, poisoned, todo, wpc, wseed,
                   dpc, buffer, factor, force_rerender, out_png, z_in,
                   redrawn>>

\* One turn of `for z in points { draw_point(canvas, z, &cfg) }`.
\* A panic unwinds through the guard: the mutex is released and poisoned.
IterateDraw(t) ==
    /\ wpc[t] = "draw"
    /\ points[t] # <<>>
    /\ LET r == draw_point(canvas, Head(points[t]), cfg, build) IN
        /\ canvas' = r.image
        /\ IF r.panic
           THEN /\ wpc' = [wpc EXCEPT ![t] = "panicked"]
                /\ locked' = FALSE
                /\ poisoned' = TRUE
           ELSE UNCHANGED <<wpc, locked, poisoned>>
    /\ points' = [points EXCEPT ![t] = Tail(@)]
    /\ stale' = (stale \/ canvas' # canvas)
    /\ UNCHANGED <<waited, hsv, rgba, hits, prior, cfg, build, threads, mpc,
                   all_coords, state, bar, todo, wseed, dpc, buffer, factor,
                   force_rerender, out_png, z_in, redrawn>>

\* Variant of IterateFinish: the guard outlives the function.
IterateFinishHolding(t) ==
    /\ wpc[t] = "draw"
    /\ points[t] = <<>>
    /\ state' = [state EXCEPT !.counter = @ + 1]
    /\ wpc' = [wpc EXCEPT ![t] = "idle"]
    /\ wseed' = [wseed EXCEPT ![t] = 0]
    /\ UNCHANGED <<waited, hsv, rgba, hits, prior, cfg, build, threads, mpc,
                   canvas, all_coords, bar, locked, poisoned, todo, points,
                   dpc, buffer, factor, force_rerender, out_png, stale, z_in,
                   redrawn>>

\* state.counter += 1, and the guard is dropped at the end of the function.
IterateFinish(t) ==
    /\ wpc[t] = "draw"
    /\ points[t] = <<>>
    /\ state' = [state EXCEPT !.counter = @ + 1]
    /\ locked' = FALSE
    /\ wpc' = [wpc EXCEPT ![t] = "idle"]
    /\ wseed' = [wseed EXCEPT ![t] = 0]
    /\ UNCHANGED <<waited, hsv, rgba, hits, prior, cfg, build, threads, mpc,
                   canvas, all_coords, bar, poisoned, todo, points, dpc,
                   buffer, factor, force_rerender, out_png, stale, z_in,
                   redrawn>>

\* ----------------------------------------------------------- live: display
\* The locals display builds before its event loop.
DisplayStart ==
    /\ dpc = "start"
    /\ buffer' = [pixels |-> [p \in Pixels(cfg) |-> <<0, 0, 0, 0>>], text |-> <<>>]
    /\ factor' = cfg.factor * FactorUnit
    /\ force_rerender' = FALSE
    /\ dpc' = "events"
    /\ UNCHANGED <<waited, hsv, rgba, hits, prior, cfg, build, threads, mpc,
                   canvas, all_coords, state, bar, locked, poisoned, todo, wpc,
                   wseed, points, out_png, stale, z_in, redrawn>>

\* A render event: shared_pic.lock().expect("Lock failed")
DisplayLock ==
    /\ dpc = "events"
    /\ LockAvailable
    /\ IF poisoned
       THEN dpc' = "panicked" /\ UNCHANGED locked
       ELSE dpc' = "render" /\ locked' = TRUE
    /\ UNCHANGED <<waited, hsv, rgba, hits, prior, cfg, build, threads, mpc,
                   canvas, all_coords, state, bar, poisoned, todo, wpc, wseed,
                   points, buffer, factor, force_rerender, out_png, stale,
                   z_in, redrawn>>

\* Variant of Finished: the flag follows the render period, not the counter.
FinishedAtPeriod(s) == s.render_count = RenderPeriod

\* state.counter == state.max
Finished(s) == s.counter = s.max

\* Variant of Rerender: the periodic conversion stops when the counter is at max.
RerenderWhileRunning(s, force) ==
    force \/ (s.render_count = RenderPeriod /\ ~Finished(s))

Rerender(s, force) ==
    force \/ (s.render_count = RenderPeriod
                /\ (~s.just_finished \/ ~Finished(s)))

\* The render section under the lock. `flip` is whether texture.update
\* succeeds. A panic unwinds through the guard: the mutex is released and
\* poisoned.
DisplayRender(flip) ==
    /\ dpc = "render"
    /\ LET redo == Rerender(state, force_rerender)
           s1   == IF redo
                   THEN [state EXCEPT !.just_finished = Finished(state),
                                      !.render_count = 0]
                   ELSE state
           over == s1.render_count = U8Max
       IN  /\ buffer' = IF redo
                        THEN [pixels |-> u16_to_u8(canvas, factor),
                              text |-> ProgressText(state)]
                        ELSE buffer
           /\ force_rerender' = IF redo THEN FALSE ELSE force_rerender
           /\ redrawn' = (redrawn \/ redo)
           /\ state' = IF over
                       THEN (IF build.overflow_checks THEN s1 ELSE [s1 EXCEPT !.render_count = 0])
                       ELSE [s1 EXCEPT !.render_count = @ + 1]
           /\ IF (over /\ build.overflow_checks) \/ ~flip
              THEN dpc' = "panicked" /\ poisoned' = TRUE
              ELSE dpc' = "events" /\ UNCHANGED poisoned
           /\ waited' = IF Finished(state) /\ ~state.just_finished /\ ~redo
                        THEN waited + 1 ELSE 0
    /\ locked' = FALSE
    /\ UNCHANGED <<hsv, rgba, hits, prior, cfg, build, threads, mpc, canvas,
                   all_coords, bar, todo, wpc, wseed, points, factor, out_png,
                   stale, z_in>>

\* Variant of DisplaySave: the canvas is converted afresh for the file.
DisplaySaveCanvas ==
    /\ dpc = "events"
    /\ out_png' = << [pixels |-> u16_to_u8(canvas, factor),
                      text |-> ProgressText(state)] >>
    /\ stale' = FALSE
    /\ redrawn' = FALSE
    /\ UNCHANGED <<waited, hsv, rgba, hits, prior, cfg, build, threads, mpc,
                   canvas, all_coords, state, bar, locked, poisoned, todo, wpc,
                   wseed, points, dpc, buffer, factor, force_rerender, z_in>>

\* Right button released: buffer.save("out.png")
DisplaySave ==
    /\ dpc = "events"
    /\ out_png' = <<buffer>>
    /\ stale' = FALSE
    /\ redrawn' = FALSE
    /\ UNCHANGED <<waited, hsv, rgba, hits, prior, cfg, build, threads, mpc,
                   canvas, all_coords, state, bar, locked, poisoned, todo, wpc,
                   wseed, points, dpc, buffer, factor, force_rerender, z_in>>

\* Variant of DisplayScroll: the scroll restarts the render period as well.
DisplayScrollResetting(dir) ==
    /\ dpc = "events"
    /\ IF dir = -1
       THEN /\ factor < cfg.factor * FactorUnit * FactorUnit
            /\ factor' = factor * 2
       ELSE /\ factor > cfg.factor
            /\ factor' = factor \div 2
    /\ force_rerender' = TRUE
    /\ state' = [state EXCEPT !.render_count = 0]
    /\ UNCHANGED <<waited, hsv, rgba, hits, prior, cfg, build, threads, mpc,
                   canvas, all_coords, bar, locked, poisoned, todo, wpc, wseed,
                   points, dpc, buffer, out_png, stale, z_in, redrawn>>

\* Mouse scroll: -1 doubles the factor, 1 halves it.
DisplayScroll(dir) ==
    /\ dpc = "events"
    /\ IF dir = -1
       THEN /\ factor < cfg.factor * FactorUnit * FactorUnit
            /\ factor' = factor * 2
       ELSE /\ factor > cfg.factor
            /\ factor' = factor \div 2
    /\ force_rerender' = TRUE
    /\ UNCHANGED <<waited, hsv, rgba, hits, prior, cfg, build, threads, mpc,
                   canvas, all_coords, state, bar, locked, poisoned, todo, wpc,
                   wseed, points, dpc, buffer, out_png, stale, z_in, redrawn>>

\* window.next() returns None: panic!("Exiting.")
DisplayClose ==
    /\ dpc = "events"
    /\ dpc' = "exited"
    /\ UNCHANGED <<waited, hsv, rgba, hits, prior, cfg, build, threads, mpc,
                   canvas, all_coords, state, bar, locked, poisoned, todo, wpc,
                   wseed, points, buffer, factor, force_rerender, out_png,
                   stale, z_in, redrawn>>

\* The display with render events only.
Display ==
    \/ DisplayStart
    \/ DisplayLock
    \/ \E flip \in BOOLEAN : DisplayRender(flip)
    \/ DisplayClose

Next ==
    \/ \E t \in threads : IterateCompute(t)
    \/ \E t \in threads : IterateLock(t)
    \/ \E t \in threads : IterateDraw(t)
    \/ \E t \in threads : IterateFinish(t)
    \/ Display

\* The render session: the pool threads against the display's render events.
Spec == Init /\ [][Next]_vars

\* ---------------------------------------- live: the session, fairly scheduled
FairConfigs ==
    { [width |-> 3, height |-> 3, bounds |-> Scale, power |-> 1, factor |-> 2,
       zoom |-> 1, delta |-> Scale, loop_limit |-> 1,
       off_real |-> 0, off_imaginary |-> 0] }

InitFair == \E c \in FairConfigs, b \in Builds : MainInit(c, b, 1..MaxThreads)

\* Fair scheduling: the pool keeps stepping while one of its threads can
\* compute, write or return; the threads waiting for the mutex get it if it is
\* free again and again; a render section the display has entered comes to
\* its end.
Fairness ==
    /\ WF_vars(\E t \in threads : IterateCompute(t) \/ IterateDraw(t) \/ IterateFinish(t))
    /\ SF_vars(\E t \in threads : IterateLock(t))
    /\ WF_vars(\E flip \in BOOLEAN : DisplayRender(flip))

SpecFair == InitFair /\ [][Next]_vars /\ Fairness

\* ------------------------------------------- live: the session with a mouse
InputConfigs ==
    { [width |-> 3, height |-> 3, bounds |-> Scale, power |-> 2, factor |-> 2,
       zoom |-> 1, delta |-> 2 * Scale, loop_limit |-> 2,
       off_real |-> 0, off_imaginary |-> 0] }

InitInput == \E c \in InputConfigs, b \in Builds : MainInit(c, b, {1})

NextInput ==
    \/ Next
    \/ DisplaySave
    \/ \E dir \in {-1, 1} : DisplayScroll(dir)

SpecInput == InitInput /\ [][NextInput]_vars

\* ------------------------------------------------- main: building the grid
GridConfigs ==
    { [width |-> 3, height |-> 3, bounds |-> b, power |-> 2, factor |-> 2,
       zoom |-> 1, delta |-> d, loop_limit |-> 2,
       off_real |-> 0, off_imaginary |-> 0] : b \in 1..MaxGrid, d \in 1..MaxGrid }

InitGrid ==
    \E c \in GridConfigs, b \in Builds :
        /\ cfg = c
        /\ build = b
        /\ mpc = "start"
        /\ canvas = <<>>
        /\ all_coords = <<>>
        /\ state = NewState(<<>>)
        /\ todo = {}
        /\ Unstarted({1})

\* main up to rayon::join: the canvas, coords, all_coords and the State.
MainSetup ==
    /\ mpc = "start"
    /\ canvas' = NewCanvas(cfg)
    /\ all_coords' = AllCoords(cfg)
    /\ state' = NewState(AllCoords(cfg))
    /\ todo' = 1..Len(AllCoords(cfg))
    /\ mpc' = "join"
    /\ UNCHANGED <<waited, hsv, rgba, hits, prior, cfg, build, threads, bar,
                   locked, poisoned, wpc, wseed, points, dpc, buffer, factor,
                   force_rerender, out_png, stale, z_in, redrawn>>

NextGrid == MainSetup

SpecGrid == InitGrid /\ [][NextGrid]_vars

\* ------------------------------------------------- draw_point on its own
RECURSIVE Sum(_, _)
Sum(f, S) == IF S = {} THEN 0
             ELSE LET p == CHOOSE q \in S : TRUE IN f[p][1] + Sum(f, S \ {p})

\* The writes a density canvas has taken (below saturation).
Hits(image) == Sum(image, DOMAIN image)

ZInputs == (-ZMax..ZMax) \X (-ZMax..ZMax)

DrawConfigs ==
    { [width |-> w, height |-> h, bounds |-> Scale, power |-> 2, factor |-> 2,
       zoom |-> zm, delta |-> Scale, loop_limit |-> 2,
       off_real |-> 0, off_imaginary |-> 0]
      : w \in 2..3, h \in 2..3, zm \in 1..2 }

InitDraw == \E c \in DrawConfigs, b \in Builds : MainInit(c, b, {1})

\* draw_point(canvas, z, &cfg) for a point z given directly.
DrawInput(z) ==
    /\ Hits(canvas) < MaxWrites
    /\ wpc[1] = "idle"
    /\ z_in' = z
    /\ LET r == draw_point(canvas, z, cfg, build) IN
        /\ canvas' = r.image
        /\ wpc' = IF r.panic THEN [wpc EXCEPT ![1] = "panicked"] ELSE wpc
    /\ UNCHANGED <<waited, hsv, rgba, hits, prior, cfg, build, threads, mpc,
                   all_coords, state, bar, locked, poisoned, todo, wseed,
                   points, dpc, buffer, factor, force_rerender, out_png, stale,
                   redrawn>>

NextDraw == \E z \in ZInputs : DrawInput(z)

SpecDraw == InitDraw /\ [][NextDraw]_vars

\* -------------------------------------- draw_point on a fresh large canvas
ProjectConfigs ==
    { [width |-> w, height |-> 100, bounds |-> Scale, power |-> 2, factor |-> 2,
       zoom |-> zm, delta |-> Scale, loop_limit |-> 2,
       off_real |-> 0, off_imaginary |-> 0]
      : w \in {100, 101}, zm \in {25, 50} }

InitProject == \E c \in ProjectConfigs, b \in Builds : MainInit(c, b, {1})

\* The first draw_point on the canvas main has built.
DrawFirst(z) ==
    /\ z_in = <<>>
    /\ z_in' = z
    /\ LET r == draw_point(canvas, z, cfg, build) IN
        /\ canvas' = r.image
        /\ wpc' = IF r.panic THEN [wpc EXCEPT ![1] = "panicked"] ELSE wpc
    /\ UNCHANGED <<waited, hsv, rgba, hits, prior, cfg, build, threads, mpc,
                   all_coords, state, bar, locked, poisoned, todo, wseed,
                   points, dpc, buffer, factor, force_rerender, out_png, stale,
                   redrawn>>

NextProject == \E z \in ZInputs : DrawFirst(z)

SpecProject == InitProject /\ [][NextProject]_vars

\* ===================================================== batch: cmdline.rs
\* floor(x * y / m) for x, y below 2^16, in two halves of y, so that no
\* product leaves the range of the checker's integers.
MulDiv(x, y, m) ==
    LET hi == x * (y \div 256)
        lo == (hi % m) * 256 + x * (y % 256)
    IN  (hi \div m) * 256 + (lo \div m)

\* Rgba([max, max, max, (max as f64 * cfg.opacity) as u16]); opacity in 1/Scale
Colour(c) == <<U16Max, U16Max, U16Max, (U16Max * c.opacity) \div Scale>>

\* Pixel::blend of the image crate: `fg` composited over `bg`, channels and
\* alpha in units of 1/U16Max.
Blend(bg, fg) ==
    LET alpha == bg[4] + fg[4] - MulDiv(bg[4], fg[4], U16Max)
        over(i) == MulDiv(fg[i], fg[4], U16Max)
                     + MulDiv(MulDiv(bg[i], bg[4], U16Max), U16Max - fg[4], U16Max)
        out(i) == MulDiv(over(i), U16Max, alpha)
    IN  IF alpha = 0 THEN bg ELSE <<out(1), out(2), out(3), alpha>>

\* draw_point of cmdline.rs
frame_draw_point(image, z, color, c, b) ==
    IF PosX(z, c) + D < 0 \/ PosY(z, c) < 0 THEN Drawn(image)
    ELSE LET pos_x == AsU32(PosX(z, c), c.width, b)
             pos_y == AsU32(PosY(z, c), c.height, b)
         IN  IF pos_x >= c.width \/ pos_y >= c.height THEN Drawn(image)
             ELSE IF ~InImage(image, pos_x, pos_y) THEN IndexPanic(image)
             ELSE Drawn([image EXCEPT ![<<pos_x, pos_y>>] =
                                Blend(image[<<pos_x, pos_y>>], color)])

\* u16_to_u8 of cmdline.rs: every channel shifted right by 8
frame_u16_to_u8(from) ==
    [p \in DOMAIN from |->
        << from[p][1] \div 256, from[p][2] \div 256,
           from[p][3] \div 256, from[p][4] \div 256 >>]

FrameConfigs ==
    { [width |-> 3, height |-> 3, bounds |-> Scale, power |-> 2,
       colour_factor |-> 1, opacity |-> o, zoom |-> 1, delta |-> Scale,
       loop_limit |-> 2] : o \in 0..Scale }

\* Pic::from_pixel(cfg.width, cfg.height, Rgba([0, 0, 0, u16::max_value()]))
NewPic(c) == [p \in Pixels(c) |-> <<0, 0, 0, U16Max>>]

\* make_frame up to the parallel for_each.
FrameInit(c, b, ts) ==
    /\ cfg = c
    /\ build = b
    /\ mpc = "for_each"
    /\ canvas = NewPic(c)
    /\ all_coords = AllCoords(c)
    /\ state = NewState(<<>>)
    /\ todo = 1..Len(AllCoords(c))
    /\ Unstarted(ts)

InitFrame == \E c \in FrameConfigs, b \in Builds, ts \in ThreadSets : FrameInit(c, b, ts)

\* Variant of FrameCompute: the split hands out a seed and loses its neighbour.
FrameComputeLosing(t) ==
    /\ mpc = "for_each"
    /\ wpc[t] = "idle"
    /\ \E k \in todo :
        /\ todo' = todo \ {k, k + 1}
        /\ wseed' = [wseed EXCEPT ![t] = k]
        /\ points' = [points EXCEPT
                        ![t] = Trajectory(<<0, 0>>, all_coords[k][1],
                                          all_coords[k][2], cfg)]
    /\ wpc' = [wpc EXCEPT ![t] = "lock"]
    /\ UNCHANGED <<waited, hsv, rgba, hits, prior, cfg, build, threads, mpc,
                   canvas, all_coords, state, bar, locked, poisoned, dpc,
                   buffer, factor, force_rerender, out_png, stale, redrawn,
                   z_in>>

\* A pool thread takes a seed and computes its points into the local vec.
FrameCompute(t) ==
    /\ mpc = "for_each"
    /\ wpc[t] = "idle"
    /\ \E k \in todo :
        /\ todo' = todo \ {k}
        /\ wseed' = [wseed EXCEPT ![t] = k]
        /\ points' = [points EXCEPT
                        ![t] = Trajectory(<<0, 0>>, all_coords[k][1],
                                          all_coords[k][2], cfg)]
    /\ wpc' = [wpc EXCEPT ![t] = "lock"]
    /\ UNCHANGED <<waited, hsv, rgba, hits, prior, cfg, build, threads, mpc,
                   canvas, all_coords, state, bar, locked, poisoned, dpc,
                   buffer, factor, force_rerender, out_png, stale, redrawn,
                   z_in>>

\* shared_pic.lock().expect("Unlock failed")
FrameLock(t) ==
    /\ wpc[t] = "lock"
    /\ LockAvailable
    /\ IF poisoned
       THEN wpc' = [wpc EXCEPT ![t] = "panicked"] /\ UNCHANGED locked
       ELSE wpc' = [wpc EXCEPT ![t] = "draw"] /\ locked' = TRUE
    /\ UNCHANGED <<waited, hsv, rgba, hits, prior, cfg, build, threads, mpc,
                   canvas, all_coords, state, bar, poisoned, todo, wseed,
                   points, dpc, buffer, factor, force_rerender, out_png, stale,
                   redrawn, z_in>>

\* One turn of `for z in points { draw_point(&mut pic, z, color, &cfg) }`.
FrameDraw(t) ==
    /\ wpc[t] = "draw"
    /\ points[t] # <<>>
    /\ LET r == frame_draw_point(canvas, Head(points[t]), Colour(cfg), cfg, build) IN
        /\ canvas' = r.image
        /\ IF r.panic
           THEN /\ wpc' = [wpc EXCEPT ![t] = "panicked"]
                /\ locked' = FALSE
                /\ poisoned' = TRUE
           ELSE UNCHANGED <<wpc, locked, poisoned>>
    /\ points' = [points EXCEPT ![t] = Tail(@)]
    /\ stale' = (stale \/ canvas' # canvas)
    /\ UNCHANGED <<waited, hsv, rgba, hits, prior, cfg, build, threads, mpc,
                   all_coords, state, bar, todo, wseed, dpc, buffer, factor,
                   force_rerender, out_png, redrawn, z_in>>

\* bar.inc(1), and the guard is dropped at the end of the closure.
FrameFinish(t) ==
    /\ wpc[t] = "draw"
    /\ points[t] = <<>>
    /\ bar' = bar + 1
    /\ locked' = FALSE
    /\ wpc' = [wpc EXCEPT ![t] = "idle"]
    /\ wseed' = [wseed EXCEPT ![t] = 0]
    /\ UNCHANGED <<waited, hsv, rgba, hits, prior, cfg, build, threads, mpc,
                   canvas, all_coords, state, poisoned, todo, points, dpc,
                   buffer, factor, force_rerender, out_png, stale, redrawn,
                   z_in>>

\* Variant of Joined: for_each returns once every seed is handed out.
JoinedEarly == todo = {}

\* for_each returns when the closure has returned for every seed.
Joined == todo = {} /\ \A t \in threads : wpc[t] = "idle"

\* The end of the block: for_each has returned, bar.finish().
FrameJoin ==
    /\ mpc = "for_each"
    /\ Joined
    /\ mpc' = "export"
    /\ UNCHANGED <<waited, hsv, rgba, hits, prior, cfg, build, threads, canvas,
                   all_coords, state, bar, locked, poisoned, todo, wpc, wseed,
                   points, dpc, buffer, factor, force_rerender, out_png, stale,
                   redrawn, z_in>>

\* u16_to_u8(&pic, &mut buffer), the text, buffer.save("out.png")
FrameExport ==
    /\ mpc = "export"
    /\ buffer' = [pixels |-> frame_u16_to_u8(canvas), text |-> <<>>]
    /\ out_png' = <<buffer'>>
    /\ stale' = FALSE
    /\ redrawn' = FALSE
    /\ mpc' = "done"
    /\ UNCHANGED <<waited, hsv, rgba, hits, prior, cfg, build, threads, canvas,
                   all_coords, state, bar, locked, poisoned, todo, wpc, wseed,
                   points, dpc, factor, force_rerender, z_in>>

NextFrame ==
    \/ \E t \in threads : FrameCompute(t)
    \/ \E t \in threads : FrameLock(t)
    \/ \E t \in threads : FrameDraw(t)
    \/ \E t \in threads : FrameFinish(t)
    \/ FrameJoin
    \/ FrameExport

SpecFrame == InitFrame /\ [][NextFrame]_vars

\* ------------------------------------------- iterate_coordinate for one seed
SeedConfigs ==
    { [width |-> 10, height |-> 10, bounds |-> Scale, power |-> 2, factor |-> 2,
       zoom |-> 10, delta |-> Scale, loop_limit |-> 5,
       off_real |-> 0, off_imaginary |-> 0] }

SeedInputs == (-1..1) \X (-1..1)

\* iterate_coordinate(x, y, ..) is called for the one pair <<y, x>> given.
InitSeed ==
    \E c \in SeedConfigs, b \in Builds, seed \in SeedInputs :
        /\ cfg = c
        /\ build = b
        /\ mpc = "join"
        /\ canvas = NewCanvas(c)
        /\ all_coords = << seed >>
        /\ state = NewState(<< seed >>)
        /\ todo = {1}
        /\ Unstarted({1})

SpecSeed == InitSeed /\ [][Next]_vars

\* ------------------------------------- draw_point on a canvas already drawn on
\* The pixel draw_point writes for z, <<>> if it returns without a write.
Target(z, c, b) ==
    LET pos_x == AsU32(PosX(z, c), c.width, b)
        pos_y == AsU32(PosY(z, c), c.height, b)
    IN  IF PosX(z, c) + D < 0 \/ PosY(z, c) < 0 THEN <<>>
        ELSE IF pos_x >= c.width \/ pos_y >= c.height THEN <<>>
        ELSE <<pos_x, pos_y>>

\* In-bounds draw_point calls every pixel has taken before.
Priors == {0, U16Max - 1, U16Max, U16Max + 1}

\* The canvas of main after n in-bounds draw_point calls on every pixel.
UsedCanvas(c, n) == [p \in Pixels(c) |-> <<IF n < U16Max THEN n ELSE U16Max, U16Max>>]

Calls(h) == Sum([p \in DOMAIN h |-> <<h[p]>>], DOMAIN h)

InitSat ==
    \E c \in DrawConfigs, b \in Builds, n \in Priors :
        /\ cfg = c
        /\ build = b
        /\ mpc = "join"
        /\ canvas = UsedCanvas(c, n)
        /\ all_coords = AllCoords(c)
        /\ state = NewState(AllCoords(c))
        /\ todo = 1..Len(AllCoords(c))
        /\ Parked({1})
        /\ hits = [p \in Pixels(c) |-> 0]
        /\ prior = n
        /\ hsv = <<>>
        /\ rgba = <<>>

\* draw_point(canvas, z, &cfg) for a point z given directly, counted per pixel.
DrawCounted(z) ==
    /\ Calls(hits) < MaxWrites
    /\ wpc[1] = "idle"
    /\ z_in' = z
    /\ LET r == draw_point(canvas, z, cfg, build) IN
        /\ canvas' = r.image
        /\ wpc' = IF r.panic THEN [wpc EXCEPT ![1] = "panicked"] ELSE wpc
    /\ hits' = IF Target(z, cfg, build) = <<>> THEN hits
               ELSE [hits EXCEPT ![Target(z, cfg, build)] = @ + 1]
    /\ UNCHANGED <<waited, hsv, rgba, prior, cfg, build, threads, mpc,
                   all_coords, state, bar, locked, poisoned, todo, wseed,
                   points, dpc, buffer, factor, force_rerender, out_png, stale,
                   redrawn>>

NextSat == \E z \in ZInputs : DrawCounted(z)

SpecSat == InitSat /\ [][NextSat]_vars

\* ------------------------------------------------------ get_rgba on its own
\* hue is in units of 1/HueRes degree, sat and val in units of 1/Scale.
Sector == 60 * HueRes

\* Variant of HsvP: the saturation taken for its complement.
HsvPInverted(sat, val) == (U8Max * val * sat) \div (Scale * Scale)

\* (255.0 * p) as u8, p = val * (1.0 - sat)
HsvP(sat, val) == (U8Max * val * (Scale - sat)) \div (Scale * Scale)

\* (255.0 * q) as u8, q = val * (1.0 - f * sat), f = r / Sector
HsvQ(r, sat, val) ==
    (U8Max * val * (Sector * Scale - r * sat)) \div (Scale * Scale * Sector)

\* (255.0 * t) as u8, t = val * (1.0 - (1.0 - f) * sat)
HsvT(r, sat, val) ==
    (U8Max * val * (Sector * Scale - (Sector - r) * sat)) \div (Scale * Scale * Sector)

\* (255.0 * val) as u8
HsvV(val) == (U8Max * val) \div Scale

get_rgba(hue, sat, val) ==
    LET hi == (hue \div Sector) % 6
        r  == hue % Sector
        p  == HsvP(sat, val)
        q  == HsvQ(r, sat, val)
        t  == HsvT(r, sat, val)
        v  == HsvV(val)
    IN  CASE hi = 0 -> <<v, t, p, U8Max>>
          [] hi = 1 -> <<q, v, p, U8Max>>
          [] hi = 2 -> <<p, v, t, U8Max>>
          [] hi = 3 -> <<p, q, v, U8Max>>
          [] hi = 4 -> <<t, p, v, U8Max>>
          [] hi = 5 -> <<v, p, q, U8Max>>
          [] OTHER  -> <<0, 0, 0, U8Max>>

HueInputs == (0..(360 * HueRes - 1)) \X (0..Scale) \X (0..Scale)

InitHue ==
    \E c \in LiveConfigs, b \in Builds, h \in HueInputs :
        /\ cfg = c
        /\ build = b
        /\ mpc = "join"
        /\ canvas = NewCanvas(c)
        /\ all_coords = AllCoords(c)
        /\ state = NewState(AllCoords(c))
        /\ todo = 1..Len(AllCoords(c))
        /\ Parked({1})
        /\ hits = <<>>
        /\ prior = 0
        /\ hsv = h
        /\ rgba = <<>>

\* get_rgba(hue, sat, val) for the arguments given.
CallGetRgba ==
    /\ rgba = <<>>
    /\ rgba' = get_rgba(hsv[1], hsv[2], hsv[3])
    /\ UNCHANGED <<waited, hsv, hits, prior, cfg, build, threads, mpc, canvas,
                   all_coords, state, bar, locked, poisoned, todo, wpc, wseed,
                   points, dpc, buffer, factor, force_rerender, out_png, stale,
                   redrawn, z_in>>

NextHue == CallGetRgba

SpecHue == InitHue /\ [][NextHue]_vars

\* =================================================================== claims

\* The pixel a position truncates to, for a position the u32 cast is defined on.
TruncatedPixel(z) ==
    << IF PosX(z, cfg) < 0 THEN 0 ELSE PosX(z, cfg) \div D, PosY(z, cfg) \div D >>

\* `after` is `before` with one more hit on pixel p, and nothing else changed.
WrittenAt(before, after, p) ==
    after = [before EXCEPT ![p] = << IF @[1] < 65535 THEN @[1] + 1 ELSE @[1], @[2] >>]

\* C1: every draw_point call either returns leaving the canvas as it was (the
\* position has px + 1 < 0, py < 0, px >= width or py >= height) or writes
\* exactly the pixel the position truncates to, which is inside the canvas; no
\* call panics on an index, whatever was written before. A position of exactly
\* -1.0 on x is outside u32: there the call drops the point or writes column 0.
C1_DrawInBounds ==
    [][ LET z == z_in'
            p == TruncatedPixel(z)
        IN  /\ wpc' = wpc
            /\ DOMAIN canvas' = Pixels(cfg)
            /\ IF PosX(z, cfg) + D < 0 \/ PosY(z, cfg) < 0
               THEN canvas' = canvas
               ELSE IF p[1] >= cfg.width \/ p[2] >= cfg.height
               THEN canvas' = canvas
               ELSE IF PosX(z, cfg) = -D
               THEN canvas' = canvas \/ WrittenAt(canvas, canvas', p)
               ELSE WrittenAt(canvas, canvas', p) ]_vars

\* C1 witness: a point right of the canvas was dropped after an earlier write.
C1_Witness ==
    /\ z_in # <<>>
    /\ PosX(z_in, cfg) >= cfg.width * D
    /\ PosY(z_in, cfg) >= 0
    /\ Hits(canvas) > 0

\* The configuration of the projection example: width 100, height 100, zoom 50.
IsExampleConfig == cfg.width = 100 /\ cfg.height = 100 /\ cfg.zoom = 50

\* C8 as stated: at width 100, height 100, zoom 50, z = 0 is written to
\* pixel (49, 49).
C8_Original ==
    (IsExampleConfig /\ z_in = <<0, 0>>) => canvas[<<49, 49>>][1] = 1

\* C8 amended: at width 100, height 100, zoom 50, z = 0 is written to pixel
\* (49, 50): px = trunc(50 - 0.5) = 49 and py = trunc(50 + 0.5) = 50.
C8_ProjectsOrigin ==
    (IsExampleConfig /\ z_in = <<0, 0>>)
        => canvas = [NewCanvas(cfg) EXCEPT ![<<49, 50>>] = <<1, 65535>>]

\* C8 witness: z = 0 has been drawn on the example canvas.
C8_Witness == IsExampleConfig /\ z_in = <<0, 0>> /\ canvas # NewCanvas(cfg)

\* ceil(2 * bounds / delta)
GridSide(c) == (2 * c.bounds + c.delta - 1) \div c.delta

\* C9: the grid main builds is the cross product with itself of the values
\* -bounds + k*delta, k = 0, 1, ..., taken while below bounds, in increasing
\* order; it has n*n pairs with n = ceil(2*bounds/delta), and state.max is that
\* number. With bounds twice delta (bounds 1.0, delta 0.5) the values are
\* -2*delta, -delta, 0, delta and the grid has 16 pairs.
C9_Grid ==
    mpc = "join" =>
        LET n == GridSide(cfg)
            v(k) == -cfg.bounds + (k - 1) * cfg.delta
        IN  /\ Len(all_coords) = n * n
            /\ state.max = n * n
            /\ \A i \in 1..n, j \in 1..n :
                    all_coords[(i - 1) * n + j] = <<v(i), v(j)>>
            /\ \A i \in 1..n : v(i) < cfg.bounds
            /\ \A i \in 1..(n - 1) : v(i) < v(i + 1)
            /\ v(n + 1) >= cfg.bounds
            /\ cfg.bounds = 2 * cfg.delta =>
                    /\ [i \in 1..n |-> all_coords[(i - 1) * n + 1][1]]
                          = <<-2 * cfg.delta, -cfg.delta, 0, cfg.delta>>
                    /\ Len(all_coords) = 16

\* C9 witness: the grid of bounds 1.0, delta 0.5 has been built.
C9_Witness ==
    mpc = "join" /\ cfg.bounds = 2 * cfg.delta /\ Len(all_coords) = 16

\* The parties inside a critical section on the mutex.
Writers == {t \in threads : wpc[t] = "draw"}
Holders == Cardinality(Writers) + (IF dpc = "render" THEN 1 ELSE 0)

\* C2: at most one party, a pool thread in its write section or the display in
\* its render section, is inside the mutex, and the mutex is held exactly then;
\* the canvas changes only in a step of a thread inside, State only in a step
\* of the party inside, and the display converts the canvas only from inside.
C2_MutualExclusion ==
    /\ [](Holders <= 1 /\ (locked <=> Holders = 1))
    /\ [][ /\ canvas' # canvas => Writers # {}
           /\ state' # state => Holders = 1
           /\ (redrawn' /\ ~redrawn) => dpc = "render" ]_vars

\* C2 witness: the display is inside while a thread waits for the mutex and
\* another seed is already on the canvas.
C2_Witness ==
    /\ dpc = "render"
    /\ \E t \in threads : wpc[t] = "lock"
    /\ state.counter > 0

\* The seeds whose closure has returned.
DoneSeeds == (1..Len(all_coords)) \ (todo \cup {wseed[t] : t \in threads})

RECURSIVE DrawAll(_, _)
DrawAll(image, pts) ==
    IF pts = <<>> THEN image
    ELSE DrawAll(draw_point(image, Head(pts), cfg, build).image, Tail(pts))

\* The canvas after the whole trajectories of the seeds of S, and nothing else.
RECURSIVE CanvasOf(_)
CanvasOf(S) ==
    IF S = {} THEN NewCanvas(cfg)
    ELSE LET k == CHOOSE i \in S : \A j \in S : i >= j
         IN  DrawAll(CanvasOf(S \ {k}),
                     Trajectory(<<cfg.off_real, cfg.off_imaginary>>,
                                all_coords[k][2], all_coords[k][1], cfg))

\* C3: a thread enters its write section from waiting only, with all loop_limit
\* points of its seed in the local vec; it stays inside until every point is
\* written and leaves by incrementing the counter, so it locks once per seed.
\* Whenever the display is inside, the canvas holds the whole trajectories of
\* exactly state.counter seeds and no part of another.
C3_SeedAtomic ==
    /\ [](dpc = "render" =>
            /\ canvas = CanvasOf(DoneSeeds)
            /\ state.counter = Cardinality(DoneSeeds))
    /\ [][ \A t \in threads :
            /\ (wpc[t] # "draw" /\ wpc'[t] = "draw") =>
                    /\ wpc[t] = "lock"
                    /\ Len(points[t]) = cfg.loop_limit
                    /\ points'[t] = points[t]
            /\ wpc[t] = "draw" =>
                    \/ wpc'[t] = "draw" /\ state' = state
                    \/ /\ wpc'[t] = "idle"
                       /\ points[t] = <<>>
                       /\ canvas' = canvas
                       /\ state'.counter = state.counter + 1 ]_vars

\* C3 witness: the display is inside with one whole seed on the canvas while a
\* thread holds the computed points of another.
C3_Witness ==
    /\ dpc = "render"
    /\ state.counter = 1
    /\ canvas # NewCanvas(cfg)
    /\ \E t \in threads : wpc[t] = "lock" /\ Len(points[t]) = cfg.loop_limit

\* The threads that hold a seed not yet counted.
Busy == {t \in threads : wseed[t] # 0}

\* C4: the counter is the number of seeds whose closure has returned: it starts
\* at 0, moves by +1 exactly when a thread leaves its write section, never
\* exceeds max, and is max once every seed is taken and every thread is back;
\* a seed is in one hand at most and never returns to the work list; max is
\* the number of grid pairs and never changes.
C4_Counter ==
    /\ [](/\ state.max = Len(all_coords)
          /\ state.counter >= 0 /\ state.counter <= state.max
          /\ state.counter = state.max - Cardinality(todo) - Cardinality(Busy)
          /\ \A t \in Busy : wseed[t] \notin todo
          /\ \A t \in Busy, u \in Busy : t # u => wseed[t] # wseed[u]
          /\ (todo = {} /\ \A t \in threads : wpc[t] = "idle")
                => state.counter = state.max)
    /\ [][ /\ state'.max = state.max
           /\ todo' \subseteq todo
           /\ state'.counter \in {state.counter, state.counter + 1}
           /\ state'.counter = state.counter + 1
                <=> \E t \in threads : wpc[t] = "draw" /\ wpc'[t] = "idle" ]_vars

\* C4 witness: every thread is back and the counter has reached max.
C4_Witness ==
    /\ todo = {}
    /\ \A t \in threads : wpc[t] = "idle"
    /\ state.counter = state.max
    /\ state.max = 4
    /\ Cardinality(threads) = 2

RECURSIVE FrameDrawAll(_, _)
FrameDrawAll(image, pts) ==
    IF pts = <<>> THEN image
    ELSE FrameDrawAll(frame_draw_point(image, Head(pts), Colour(cfg), cfg, build).image,
                      Tail(pts))

\* The pic one thread leaves that takes the seeds k, k+1, ... in order.
RECURSIVE FrameFrom(_, _)
FrameFrom(image, k) ==
    IF k > Len(all_coords) THEN image
    ELSE FrameFrom(FrameDrawAll(image,
                        Trajectory(<<0, 0>>, all_coords[k][1], all_coords[k][2], cfg)),
                   k + 1)

NonZero(image) ==
    {p \in DOMAIN image : image[p][1] # 0 \/ image[p][2] # 0 \/ image[p][3] # 0}

\* C5: when for_each has returned, the non-zero pixels of the pic are those of
\* the pic one thread leaves taking the seeds in order, however many threads
\* ran and however their write sections interleaved.
C5_Coverage ==
    mpc \in {"export", "done"} =>
        NonZero(canvas) = NonZero(FrameFrom(NewPic(cfg), 1))

\* C5 witness: two threads have finished a frame with pixels written.
C5_Witness ==
    /\ mpc = "export"
    /\ Cardinality(threads) = 2
    /\ NonZero(canvas) # {}

\* C6: just_finished holds only with counter = max, is set only by the display
\* inside its render section at counter = max, and once set is never cleared,
\* by a render tick, a forced re-render after a scroll or a step of a thread.
C6_FinishedOnce ==
    /\ [](state.just_finished => state.counter = state.max)
    /\ [][ /\ state.just_finished => state'.just_finished
           /\ (~state.just_finished /\ state'.just_finished)
                => (dpc = "render" /\ state.counter = state.max) ]_vars

\* C6 witness: a scroll has forced a re-render after the flag was set, and the
\* re-render has run.
C6_Witness ==
    /\ state.just_finished
    /\ factor # cfg.factor * FactorUnit
    /\ ~force_rerender
    /\ dpc = "events"

\* C7: out.png is written only after for_each has returned for every seed: the
\* pic then holds every seed's points, the file is its conversion, and no pixel
\* is written once the file exists.
C7_ExportLast ==
    /\ [](out_png # <<>> =>
            /\ todo = {}
            /\ \A t \in threads : wpc[t] = "idle"
            /\ bar = Len(all_coords)
            /\ canvas = FrameFrom(NewPic(cfg), 1)
            /\ out_png[1].pixels = frame_u16_to_u8(canvas))
    /\ [][ mpc # "for_each" => canvas' = canvas ]_vars

\* C7 witness: the file of a frame with pixels written exists.
C7_Witness ==
    /\ out_png # <<>>
    /\ \E p \in DOMAIN canvas : out_png[1].pixels[p][1] # 0

\* C10 as stated: with no canvas write since out.png was last written, the
\* next export leaves the file as it is, whatever render ticks and scroll
\* events came between.
C10_Original ==
    [][ (out_png # <<>> /\ ~stale) => out_png' = out_png ]_vars

\* C10 amended: with no canvas write and no re-conversion of the buffer since
\* out.png was last written, the next export leaves the file as it is,
\* whatever scroll events and other render ticks came between.
C10_ExportIdempotent ==
    [][ (out_png # <<>> /\ ~stale /\ ~redrawn) => out_png' = out_png ]_vars

\* C10 witness: a converted buffer was exported and a scroll came after it,
\* with no write and no re-conversion since.
C10_Witness ==
    /\ out_png # <<>>
    /\ out_png[1].text # <<>>
    /\ ~stale
    /\ ~redrawn
    /\ force_rerender
    /\ factor # cfg.factor * FactorUnit

IsSeedExample ==
    /\ cfg.width = 10 /\ cfg.height = 10 /\ cfg.zoom = 10
    /\ cfg.loop_limit = 5 /\ cfg.power = 2
    /\ cfg.off_real = 0 /\ cfg.off_imaginary = 0
    /\ all_coords = << <<0, 0>> >>

\* The canvas main builds with n hits on pixel p and nothing else written.
OnlyPixel(p, n) == [NewCanvas(cfg) EXCEPT ![p] = <<n, U16Max>>]

\* C11 as stated: for the seed (0,0) at 10/10/10 with loop_limit 5, once the
\* seed is processed the centre pixel (5,5) holds 5 hits and no other pixel
\* has changed.
C11_Original ==
    (IsSeedExample /\ state.counter = 1) => canvas = OnlyPixel(<<5, 5>>, 5)

\* C11 amended: for the seed (0,0) at 10/10/10 with loop_limit 5, the 5
\* recorded points are all z = 0, and once the seed is processed pixel (4,5)
\* holds exactly 5 hits and no other pixel has changed.
C11_SingleSeed ==
    IsSeedExample =>
        /\ \A t \in threads :
                wpc[t] = "lock" => points[t] = [i \in 1..5 |-> <<0, 0>>]
        /\ state.counter = 1 => canvas = OnlyPixel(<<4, 5>>, 5)

\* C11 witness: the seed (0,0) of the example is processed and a pixel holds
\* its 5 hits.
C11_Witness ==
    /\ IsSeedExample
    /\ state.counter = 1
    /\ \E p \in DOMAIN canvas : canvas[p][1] = 5

\* C12: once the mutex is poisoned nobody is inside it again: a thread that
\* leaves its wait for the lock has panicked, the display that asks for the
\* lock panics, and the canvas, State and the display's buffer stay as they
\* were at the poisoning.
C12_PoisonFatal ==
    /\ [](poisoned => (~locked /\ Holders = 0))
    /\ [][ poisoned =>
            /\ poisoned'
            /\ canvas' = canvas
            /\ state' = state
            /\ buffer' = buffer
            /\ \A t \in threads :
                    (wpc[t] = "lock" /\ wpc'[t] # "lock") => wpc'[t] = "panicked"
            /\ dpc' # dpc => dpc' \in {"panicked", "exited"} ]_vars

\* C12 witness: the display panicked inside its render section part way
\* through the grid, and a thread has since failed to take the lock.
C12_Witness ==
    /\ poisoned
    /\ dpc = "panicked"
    /\ state.counter > 0
    /\ \E t \in threads : wpc[t] = "panicked"
    /\ todo # {}

\* The R, G, B channels of the last get_rgba result that are 0.
ZeroChannels == {i \in 1..3 : rgba[i] = 0}

FullySaturated == rgba # <<>> /\ hsv[2] = Scale /\ hsv[3] = Scale

\* C13 as stated: for every hue in [0, 360), get_rgba(hue, 1.0, 1.0) has
\* exactly one of R, G, B at 0, and alpha 255.
C13_Original ==
    FullySaturated => (Cardinality(ZeroChannels) = 1 /\ rgba[4] = 255)

\* C13 amended: for every hue in [0, 360), get_rgba(hue, 1.0, 1.0) has alpha
\* 255, a channel at 255 and a channel at 0; exactly one channel is 0 unless
\* the hue is less than 60/255 degree above 0, 120 or 240 or less than 60/255
\* degree below 120, 240 or 360, where the ramp channel truncates to 0 as
\* well and two channels are 0.
C13_OneOrTwoAtMinimum ==
    FullySaturated =>
        LET hi == (hsv[1] \div Sector) % 6
            r  == hsv[1] % Sector
            ramp == IF hi % 2 = 0 THEN r ELSE Sector - r
        IN  /\ rgba[4] = 255
            /\ \E i \in 1..3 : rgba[i] = 255
            /\ Cardinality(ZeroChannels) = (IF 255 * ramp < Sector THEN 2 ELSE 1)

\* C13 witness: a fully saturated hue other than 0 with two channels at 0.
C13_Witness ==
    /\ FullySaturated
    /\ hsv[1] # 0
    /\ Cardinality(ZeroChannels) = 2

\* The n-th iterate of the map for seed k, from the configured offset.
RECURSIVE Iterate(_, _)
Iterate(k, n) ==
    IF n = 0 THEN <<cfg.off_real, cfg.off_imaginary>>
    ELSE mandelbrot(Iterate(k, n - 1), all_coords[k][2], all_coords[k][1], cfg)

\* draw_point returns without a write for z.
OutOfBounds(z) ==
    \/ PosX(z, cfg) + D < 0
    \/ PosY(z, cfg) < 0
    \/ AsU32(PosX(z, cfg), cfg.width, build) >= cfg.width
    \/ AsU32(PosY(z, cfg), cfg.height, build) >= cfg.height

\* The recorded points of the seeds of S that draw_point drops.
DroppedPoints(S) ==
    {<<k, i>> \in S \X (1..cfg.loop_limit) : OutOfBounds(Iterate(k, i + 1))}

\* C14: a thread waiting for the lock holds exactly loop_limit points, the
\* iterates 2 .. loop_limit + 1 of its seed (iterate 1 is the discarded
\* warm-up), whatever the trajectory does; it gives them to draw_point one
\* by one; and outside a write section the pixel counters sum to
\* counter * loop_limit less the points out of bounds.
C14_LoopLimitPoints ==
    /\ [](\A t \in threads :
            wpc[t] = "lock" =>
                points[t] = [i \in 1..cfg.loop_limit |-> Iterate(wseed[t], i + 1)])
    /\ [](Writers = {} =>
            /\ Hits(canvas) <= state.counter * cfg.loop_limit
            /\ Hits(canvas) = state.counter * cfg.loop_limit
                                - Cardinality(DroppedPoints(DoneSeeds)))
    /\ [][ \A t \in threads :
            (wpc[t] = "draw" /\ points'[t] # points[t]) =>
                /\ points'[t] = Tail(points[t])
                /\ Hits(canvas') = Hits(canvas)
                        + (IF OutOfBounds(Head(points[t])) THEN 0 ELSE 1) ]_vars

\* C14 witness: every seed is processed, some points were written and some
\* were out of bounds.
C14_Witness ==
    /\ state.counter = state.max
    /\ Hits(canvas) > 0
    /\ Hits(canvas) < state.counter * cfg.loop_limit

\* C15: every pixel counter is min(in-bounds hits on the pixel, 65535) and
\* every alpha channel stays 65535; a draw_point call changes nothing or adds
\* exactly 1 to channel 0 of one pixel below 65535, so no counter decreases
\* or wraps.
C15_SaturatingCount ==
    /\ [](\A p \in DOMAIN canvas :
            /\ canvas[p][1] = (IF prior + hits[p] < U16Max
                               THEN prior + hits[p] ELSE U16Max)
            /\ canvas[p][2] = U16Max)
    /\ [][ /\ \A p \in DOMAIN canvas :
                /\ canvas'[p][1] >= canvas[p][1]
                /\ canvas'[p][2] = canvas[p][2]
           /\ \/ canvas' = canvas
              \/ \E p \in DOMAIN canvas :
                    /\ canvas[p][1] < U16Max
                    /\ canvas' = [canvas EXCEPT ![p] = <<@[1] + 1, @[2]>>] ]_vars

\* C15 witness: a pixel one below the top took two more hits and stands at
\* 65535.
C15_Witness ==
    /\ prior = U16Max - 1
    /\ \E p \in DOMAIN canvas : hits[p] = 2 /\ canvas[p][1] = U16Max

\* A step of the display: no pool thread moves.
DisplayStep == wpc' = wpc /\ points' = points
\* The display's steps by kind.
RenderStep == DisplayStep /\ (dpc = "render" \/ dpc' = "render")
ScrollStep == DisplayStep /\ dpc = "events" /\ factor' # factor
SaveStep == DisplayStep /\ dpc = "events" /\ out_png' # out_png

\* No step of the display touches the render data.
RenderDataKept ==
    DisplayStep =>
        /\ canvas' = canvas
        /\ state'.counter = state.counter
        /\ state'.max = state.max

\* A scroll changes the factor, by doubling or halving, and raises
\* force_rerender; an export changes out.png; neither changes anything else
\* of the display or of State.
EventsKept ==
    /\ ScrollStep =>
            /\ factor' = 2 * factor \/ 2 * factor' = factor
            /\ force_rerender'
            /\ state' = state /\ buffer' = buffer /\ out_png' = out_png
    /\ SaveStep =>
            /\ state' = state /\ buffer' = buffer
            /\ factor' = factor /\ force_rerender' = force_rerender

\* C16 as stated: the display never changes a canvas pixel, state.counter or
\* state.max; a render tick changes nothing but state.render_count,
\* state.just_finished and the buffer; a scroll changes only the factor
\* (doubled or halved) and force_rerender.
C16_Original ==
    [][ /\ RenderDataKept
        /\ EventsKept
        /\ RenderStep =>
                /\ factor' = factor
                /\ out_png' = out_png
                /\ force_rerender' = force_rerender ]_vars

\* C16 amended: the display never changes a canvas pixel, state.counter or
\* state.max; a render tick changes nothing but state.render_count,
\* state.just_finished, the buffer and force_rerender, which it clears when
\* it re-converts; a scroll changes only the factor (doubled or halved) and
\* force_rerender.
C16_PresentationReadOnly ==
    [][ /\ RenderDataKept
        /\ EventsKept
        /\ RenderStep =>
                /\ factor' = factor
                /\ out_png' = out_png
                /\ force_rerender' # force_rerender =>
                        (force_rerender /\ buffer' = [pixels |-> u16_to_u8(canvas, factor),
                                                      text |-> ProgressText(state)]) ]_vars

\* C16 witness: with points on the canvas, a scroll was followed by an
\* export and then by the render tick that re-converted the buffer.
C16_Witness ==
    /\ out_png # <<>>
    /\ redrawn
    /\ ~force_rerender
    /\ factor # cfg.factor * FactorUnit
    /\ canvas # NewCanvas(cfg)

\* Every seed is counted and every pool thread is back.
WorkersDone ==
    /\ todo = {}
    /\ \A t \in threads : wpc[t] = "idle"
    /\ state.counter = state.max

C18_NoOverflow ==
    (dpc = "render" /\ ~Rerender(state, force_rerender))
        => state.render_count < U8Max

\* Every seed is on the canvas and the display has not yet seen it.
Pending == Finished(state) /\ ~state.just_finished

\* The conversion of the canvas the display makes under the lock.
Converted ==
    [pixels |-> u16_to_u8(canvas, factor), text |-> ProgressText(state)]

\* The step that ends a render section.
RenderEnd == dpc = "render" /\ dpc' # "render"

\* C19 as stated: once counter = max the buffer is re-converted within 30
\* further render ticks, so at most 29 ticks in a row leave the finished
\* canvas unconverted.
C19_Original == Pending => waited <= RenderPeriod - 1

\* C19 amended: once counter = max at most 30 render ticks in a row leave the
\* finished canvas unconverted (30 only when the workers finished before the
\* first tick, else at most 29); the tick that converts sees the canvas with
\* every seed on it and sets just_finished; after that the buffer changes
\* only on a scroll-forced conversion; and while seeds remain the buffer is
\* converted at exactly the ticks that find render_count = 30, which leave
\* it at 1.
C19_FinishedShown ==
    /\ [](Pending =>
            /\ state.render_count <= RenderPeriod
            /\ waited <= state.render_count
            /\ waited = RenderPeriod => state.render_count = waited)
    /\ [][ (RenderEnd /\ Pending) =>
            \/ /\ buffer' = Converted
               /\ canvas = CanvasOf(1..Len(all_coords))
               /\ state'.just_finished
            \/ /\ buffer' = buffer
               /\ waited' = waited + 1 ]_vars
    /\ [][ (state.just_finished /\ ~force_rerender) => buffer' = buffer ]_vars
    /\ [](~Finished(state) => state.render_count <= RenderPeriod)
    /\ [][ (RenderEnd /\ ~Finished(state) /\ ~force_rerender) =>
            IF state.render_count = RenderPeriod
            THEN buffer' = Converted /\ state'.render_count = 1
            ELSE buffer' = buffer /\ state'.render_count = state.render_count + 1 ]_vars

\* C19 witness: the finished canvas is in the buffer and more than 30 ticks
\* have passed since without another conversion.
C19_Witness ==
    /\ state.just_finished
    /\ state.render_count > RenderPeriod
    /\ canvas # NewCanvas(cfg)
    /\ buffer.pixels = u16_to_u8(canvas, factor)

\* Each recorded point of the whole grid with the pixel draw_point writes
\* for it.
GridTargets ==
    { <<ki, Target(Iterate(ki[1], ki[2] + 1), cfg, build)>> :
        ki \in (1..Len(all_coords)) \X (1..cfg.loop_limit) }

\* C20: when every seed has completed, each pixel counter is the number of
\* recorded points of the grid that fall on the pixel (capped at 65535), the
\* canvas is the one a single thread leaves taking the seeds in order, and
\* counter = max: the final canvas is a function of the Config alone,
\* whatever the order of the write sections and of the render sections.
C20_ScheduleIndependent ==
    WorkersDone =>
        LET on == GridTargets
            n(p) == Cardinality({e \in on : e[2] = p})
        IN  /\ \A p \in DOMAIN canvas :
                    canvas[p] = << IF n(p) < U16Max THEN n(p) ELSE U16Max, U16Max >>
            /\ canvas = CanvasOf(1..Len(all_coords))
            /\ state.counter = state.max

\* C20 witness: two threads have completed the grid with the display taking
\* render sections in between, and a pixel holds points of more than one
\* write.
C20_Witness ==
    /\ WorkersDone
    /\ Cardinality(threads) = 2
    /\ state.just_finished
    /\ \E p \in DOMAIN canvas : canvas[p][1] >= 2

====
